---- MODULE Spec2Model ----
(***************************************************************************)
(* NymBazaar: the marketplace server (src/server/src/main.rs) and the      *)
(* stress harness (src/stress-test/src/main.rs).                           *)
(*                                                                         *)
(* Text is modelled as a sequence of one-character strings, so that        *)
(* trimming, splitting, case conversion and substring search are computed  *)
(* character by character as the Rust code computes them.                  *)
(***************************************************************************)
EXTENDS Integers, Sequences, FiniteSets, TLC

VARIABLES
    \* ---- server: BazaarServer and main ----
    items,          \* BazaarServer.items: HashMap<String, Item>
    iterOrder,      \* iteration order of the HashMap (fixed by its hasher seed)
    readers,        \* RwLock of items: the handlers holding a read guard
    mainPc,         \* position of server main
    shutdown,       \* tokio::sync::Notify: TRUE when a permit is stored
    sigFired,       \* the ctrl_c task has run
    conn,           \* per connection: idle, pending in the listener, open,
                    \* closed by the peer, dropped by the handler
    inflight,       \* per connection: bytes sent by the peer and not yet read
    pc,             \* per connection: position of handle_connection
    buffer,         \* per connection: the read buffer, up to the last byte
                    \* a read ever wrote (the bytes after it are still 0)
    request,        \* per connection: bytes of the current read, decoded
    arm,            \* per connection: the command the match selects
    response,       \* per connection: response of handle_command
    lastIo,         \* per connection: outcome of the latest socket operation
    nReads,         \* per connection: number of non-empty reads
    nWrites,        \* per connection: number of responses written
    linesSent,      \* per connection: newline-terminated lines the peer sent
    \* ---- handle_command applied to one input ----
    cmdTokens, cmdLayout, cmdIn, cmdParsed, cmdOut, cmdCatOrder,
    \* ---- stress harness ----
    concurrency, total_requests, stressPc, spawned, joined,
    wpc, wleft, wissued, welapsed,
    requests_sent, requests_succeeded, requests_failed, total_time_ns, report

catalogVars == <<items, iterOrder, readers>>
mainVars == <<mainPc, shutdown, sigFired>>
peerVars == <<conn, inflight, linesSent>>
handlerVars ==
    <<pc, buffer, request, arm, response, lastIo, nReads, nWrites>>
serverVars == <<catalogVars, mainVars, peerVars, handlerVars>>
cmdVars == <<cmdTokens, cmdLayout, cmdIn, cmdParsed, cmdOut, cmdCatOrder>>
stressVars == <<concurrency, total_requests, stressPc, spawned, joined,
                wpc, wleft, wissued, welapsed, requests_sent, requests_succeeded,
                requests_failed, total_time_ns, report>>
vars == <<serverVars, cmdVars, stressVars>>

----------------------------------------------------------------------------
(* Bounds of the model.                                                    *)

\* newline-terminated lines the peers send, over all connections
MaxLines == 1
\* commands the clients send one at a time, over all connections
MaxRequests == 2
\* tokens of an input handed to handle_command
MaxTokens == 3
\* stress harness: largest concurrency argument
MaxN == 3
\* stress harness: largest total_requests argument
MaxT == 5

\* handle_connection: vec![0u8; 4096]
BUFFER_SIZE == 4096

----------------------------------------------------------------------------
(* Characters and strings (std::str).                                      *)

LowerLetters ==
    <<"a", "b", "c", "d", "e", "f", "g", "h", "i", "j", "k", "l", "m",
      "n", "o", "p", "q", "r", "s", "t", "u", "v", "w", "x", "y", "z">>
UpperLetters ==
    <<"A", "B", "C", "D", "E", "F", "G", "H", "I", "J", "K", "L", "M",
      "N", "O", "P", "Q", "R", "S", "T", "U", "V", "W", "X", "Y", "Z">>

char_to_uppercase(c) ==
    IF \E i \in 1..26 : LowerLetters[i] = c
    THEN UpperLetters[CHOOSE i \in 1..26 : LowerLetters[i] = c]
    ELSE c

char_to_lowercase(c) ==
    IF \E i \in 1..26 : UpperLetters[i] = c
    THEN LowerLetters[CHOOSE i \in 1..26 : UpperLetters[i] = c]
    ELSE c

to_uppercase(s) == [i \in 1..Len(s) |-> char_to_uppercase(s[i])]

to_lowercase(s) == [i \in 1..Len(s) |-> char_to_lowercase(s[i])]

\* char::is_whitespace, on the characters of the model
is_whitespace(c) == c \in {" ", "\t", "\n", "\r"}

RECURSIVE trim_start(_)
trim_start(s) ==
    IF s # <<>> /\ is_whitespace(Head(s)) THEN trim_start(Tail(s)) ELSE s

RECURSIVE trim_end(_)
trim_end(s) ==
    IF s # <<>> /\ is_whitespace(s[Len(s)])
    THEN trim_end(SubSeq(s, 1, Len(s) - 1))
    ELSE s

trim(s) == trim_end(trim_start(s))

\* split_whitespace: the maximal runs of non-whitespace characters, in order;
\* cur is the run being read, acc the runs completed so far
RECURSIVE split_ws(_, _, _)
split_ws(s, cur, acc) ==
    IF s = <<>>
    THEN IF cur = <<>> THEN acc ELSE Append(acc, cur)
    ELSE IF is_whitespace(Head(s))
         THEN split_ws(Tail(s), <<>>, IF cur = <<>> THEN acc ELSE Append(acc, cur))
         ELSE split_ws(Tail(s), Append(cur, Head(s)), acc)

split_whitespace(s) == split_ws(s, <<>>, <<>>)

\* str::contains: term occurs in s as a contiguous substring
contains(s, term) ==
    \E i \in 0..(Len(s) - Len(term)) : SubSeq(s, i + 1, i + Len(term)) = term

\* A byte that is no valid UTF-8, and the character from_utf8_lossy puts for it
BYTE_INVALID == "0xFF"
REPLACEMENT_CHARACTER == "U+FFFD"

\* String::from_utf8_lossy on the bytes of the model: ASCII bytes decode to
\* themselves, an invalid byte to U+FFFD
from_utf8_lossy(bytes) ==
    [i \in 1..Len(bytes) |->
        IF bytes[i] = BYTE_INVALID THEN REPLACEMENT_CHARACTER ELSE bytes[i]]

----------------------------------------------------------------------------
(* String literals of the server.                                          *)

STR_HEAD ==
    <<"H", "E", "A", "D">>
STR_LIST ==
    <<"L", "I", "S", "T">>
STR_GET ==
    <<"G", "E", "T">>
STR_SEARCH ==
    <<"S", "E", "A", "R", "C", "H">>
STR_CATEGORIES ==
    <<"C", "A", "T", "E", "G", "O", "R", "I", "E", "S">>
STR_OK ==
    <<"O", "K", "\n">>
STR_NO_ITEMS ==
    <<"N", "o", " ", "i", "t", "e", "m", "s", " ", "f", "o", "u", "n", "d",
    "\n">>
STR_NO_MATCH ==
    <<"N", "o", " ", "i", "t", "e", "m", "s", " ", "f", "o", "u", "n", "d", " ",
    "m", "a", "t", "c", "h", "i", "n", "g", " ", "y", "o", "u", "r", " ", "s",
    "e", "a", "r", "c", "h", "\n">>
STR_CAT_HEADER ==
    <<"A", "v", "a", "i", "l", "a", "b", "l", "e", " ", "c", "a", "t", "e", "g",
    "o", "r", "i", "e", "s", ":", "\n">>
STR_HELP ==
    <<"I", "n", "v", "a", "l", "i", "d", " ", "c", "o", "m", "m", "a", "n", "d",
    ".", " ", "A", "v", "a", "i", "l", "a", "b", "l", "e", " ", "c", "o", "m",
    "m", "a", "n", "d", "s", ":", "\n", "H", "E", "A", "D", "\n", "L", "I", "S",
    "T", " ", "[", "c", "a", "t", "e", "g", "o", "r", "y", "]", "\n", "G", "E",
    "T", " ", "<", "i", "d", ">", "\n", "S", "E", "A", "R", "C", "H", " ", "<",
    "t", "e", "r", "m", ">", "\n", "C", "A", "T", "E", "G", "O", "R", "I", "E",
    "S", "\n">>
STR_NOT_FOUND_PRE ==
    <<"I", "t", "e", "m", " ", "w", "i", "t", "h", " ", "I", "D", " ">>
STR_NOT_FOUND_POST ==
    <<" ", "n", "o", "t", " ", "f", "o", "u", "n", "d", "\n">>

----------------------------------------------------------------------------
(* The Catalog built by BazaarServer::new.                                 *)

ITEM1_ID ==
    <<"1">>
ITEM1_NAME ==
    <<"N", "i", "n", "t", "e", "n", "d", "o", " ", "N", "E", "S">>
ITEM1_CATEGORY ==
    <<"g", "a", "m", "i", "n", "g">>
ITEM1_DESCRIPTION ==
    <<"O", "r", "i", "g", "i", "n", "a", "l", " ", "N", "i", "n", "t", "e", "n",
    "d", "o", " ", "E", "n", "t", "e", "r", "t", "a", "i", "n", "m", "e", "n",
    "t", " ", "S", "y", "s", "t", "e", "m", " ", "f", "r", "o", "m", " ", "1",
    "9", "8", "5", ".", " ", "G", "o", "o", "d", " ", "c", "o", "n", "d", "i",
    "t", "i", "o", "n", " ", "w", "i", "t", "h", " ", "c", "o", "n", "t", "r",
    "o", "l", "l", "e", "r", "s", ".">>
ITEM1_PRICE ==
    <<"$", "1", "5", "0">>
ITEM1_SELLER ==
    <<"R", "e", "t", "r", "o", "G", "a", "m", "e", "r">>
ITEM2_ID ==
    <<"2">>
ITEM2_NAME ==
    <<"Y", "a", "m", "a", "h", "a", " ", "D", "X", "7">>
ITEM2_CATEGORY ==
    <<"s", "y", "n", "t", "h", "e", "s", "i", "z", "e", "r">>
ITEM2_DESCRIPTION ==
    <<"C", "l", "a", "s", "s", "i", "c", " ", "F", "M", " ", "s", "y", "n", "t",
    "h", "e", "s", "i", "z", "e", "r", " ", "f", "r", "o", "m", " ", "1", "9",
    "8", "3", ".", " ", "T", "h", "e", " ", "q", "u", "i", "n", "t", "e", "s",
    "s", "e", "n", "t", "i", "a", "l", " ", "8", "0", "s", " ", "s", "y", "n",
    "t", "h", " ", "s", "o", "u", "n", "d", ".">>
ITEM2_PRICE ==
    <<"$", "8", "0", "0">>
ITEM2_SELLER ==
    <<"S", "y", "n", "t", "h", "W", "a", "v", "e">>

\* format! pieces of the GET record
FMT_ID ==
    <<"I", "D", ":", " ">>
FMT_NAME ==
    <<"\n", "N", "a", "m", "e", ":", " ">>
FMT_CATEGORY ==
    <<"\n", "C", "a", "t", "e", "g", "o", "r", "y", ":", " ">>
FMT_PRICE ==
    <<"\n", "P", "r", "i", "c", "e", ":", " ">>
FMT_SELLER ==
    <<"\n", "S", "e", "l", "l", "e", "r", ":", " ">>

Item1 ==
    [id |-> ITEM1_ID, name |-> ITEM1_NAME, category |-> ITEM1_CATEGORY,
     description |-> ITEM1_DESCRIPTION, price |-> ITEM1_PRICE,
     seller |-> ITEM1_SELLER]

Item2 ==
    [id |-> ITEM2_ID, name |-> ITEM2_NAME, category |-> ITEM2_CATEGORY,
     description |-> ITEM2_DESCRIPTION, price |-> ITEM2_PRICE,
     seller |-> ITEM2_SELLER]

\* BazaarServer::new: two inserts into an empty HashMap keyed by id
BazaarServer_new == (ITEM1_ID :> Item1) @@ (ITEM2_ID :> Item2)

\* The orders in which a HashMap or HashSet holding the elements of S may
\* iterate: std fixes none, so every arrangement of S is possible
hash_orders(S) ==
    {o \in [1..Cardinality(S) -> S] : \A x \in S : \E i \in DOMAIN o : o[i] = x}

----------------------------------------------------------------------------
(* BazaarServer::handle_command.                                           *)

\* items.values(), in the map's iteration order
values(its, order) == [i \in 1..Len(order) |-> its[order[i]]]

\* format!("{}. {} - {}\n", item.id, item.name, item.price)
format_listing(item) ==
    item.id \o <<".", " ">> \o item.name \o <<" ", "-", " ">> \o item.price
        \o <<"\n">>

\* the push_str loop over the selected items
RECURSIVE push_listing(_)
push_listing(selected) ==
    IF selected = <<>> THEN <<>>
    ELSE format_listing(Head(selected)) \o push_listing(Tail(selected))

\* parse_command matching the first token as written, without to_uppercase
parse_command_CaseSensitive(command) ==
    LET parts == split_whitespace(trim(command))
        first == IF Len(parts) > 0 THEN <<parts[1]>> ELSE <<>>
        arg1  == IF Len(parts) > 1 THEN <<parts[2]>> ELSE <<>>
    IN  CASE first = <<STR_HEAD>> -> [kind |-> "Head", arg |-> <<>>]
          [] first = <<STR_LIST>> -> [kind |-> "List", arg |-> arg1]
          [] first = <<STR_GET>> /\ Len(parts) > 1 ->
                [kind |-> "Get", arg |-> arg1]
          [] first = <<STR_SEARCH>> /\ Len(parts) > 1 ->
                [kind |-> "Search", arg |-> arg1]
          [] first = <<STR_CATEGORIES>> -> [kind |-> "Categories", arg |-> <<>>]
          [] OTHER -> [kind |-> "Invalid", arg |-> <<>>]

\* The typed command a line selects: the match on the upper-cased first
\* token of command.trim().split_whitespace(), with the guards of its arms.
\* arg holds parts.get(1) when the arm reads it: <<>> is None, <<t>> is Some(t)
parse_command(command) ==
    LET parts == split_whitespace(trim(command))
        first == IF Len(parts) > 0 THEN <<to_uppercase(parts[1])>> ELSE <<>>
        arg1  == IF Len(parts) > 1 THEN <<parts[2]>> ELSE <<>>
    IN  CASE first = <<STR_HEAD>> -> [kind |-> "Head", arg |-> <<>>]
          [] first = <<STR_LIST>> -> [kind |-> "List", arg |-> arg1]
          [] first = <<STR_GET>> /\ Len(parts) > 1 ->
                [kind |-> "Get", arg |-> arg1]
          [] first = <<STR_SEARCH>> /\ Len(parts) > 1 ->
                [kind |-> "Search", arg |-> arg1]
          [] first = <<STR_CATEGORIES>> -> [kind |-> "Categories", arg |-> <<>>]
          [] OTHER -> [kind |-> "Invalid", arg |-> <<>>]

\* Some("HEAD")
head_arm == STR_OK

\* list_arm comparing the category with the filter as written
list_arm_CaseSensitive(arg, its, order) ==
    LET keep(item) == IF arg # <<>> THEN item.category = arg[1] ELSE TRUE
        filtered_items == SelectSeq(values(its, order), keep)
    IN  IF filtered_items = <<>> THEN STR_NO_ITEMS
        ELSE push_listing(filtered_items)

\* Some("LIST"): filter by the lower-cased category when one is given
list_arm(arg, its, order) ==
    LET category_filter == IF arg = <<>> THEN <<>> ELSE <<to_lowercase(arg[1])>>
        keep(item) ==
            IF category_filter # <<>>
            THEN to_lowercase(item.category) = category_filter[1]
            ELSE TRUE
        filtered_items == SelectSeq(values(its, order), keep)
    IN  IF filtered_items = <<>> THEN STR_NO_ITEMS
        ELSE push_listing(filtered_items)

\* get_arm answering with the record of item 1 whatever the id asked for
get_arm_AnyItem(arg, its) ==
    LET item == its[ITEM1_ID]
    IN  FMT_ID \o item.id \o FMT_NAME \o item.name
            \o FMT_CATEGORY \o item.category \o FMT_PRICE \o item.price
            \o FMT_SELLER \o item.seller \o <<"\n", "\n">>
            \o item.description \o <<"\n">>

\* Some("GET") if parts.len() > 1
get_arm(arg, its) ==
    LET id == arg[1]
    IN  IF id \in DOMAIN its
        THEN LET item == its[id]
             IN  FMT_ID \o item.id \o FMT_NAME \o item.name
                    \o FMT_CATEGORY \o item.category \o FMT_PRICE \o item.price
                    \o FMT_SELLER \o item.seller \o <<"\n", "\n">>
                    \o item.description \o <<"\n">>
        ELSE STR_NOT_FOUND_PRE \o id \o STR_NOT_FOUND_POST

\* search_arm looking at the name alone
search_arm_NameOnly(arg, its, order) ==
    LET term == to_lowercase(arg[1])
        hit(item) == contains(to_lowercase(item.name), term)
        results == SelectSeq(values(its, order), hit)
    IN  IF results = <<>> THEN STR_NO_MATCH
        ELSE push_listing(results)

\* Some("SEARCH") if parts.len() > 1
search_arm(arg, its, order) ==
    LET term == to_lowercase(arg[1])
        hit(item) ==
            \/ contains(to_lowercase(item.name), term)
            \/ contains(to_lowercase(item.description), term)
            \/ contains(to_lowercase(item.category), term)
        results == SelectSeq(values(its, order), hit)
    IN  IF results = <<>> THEN STR_NO_MATCH
        ELSE push_listing(results)

\* categories_of looking at item 1 alone
categories_of_FirstItem(its) == {its[ITEM1_ID].category}

\* the categories inserted into the HashSet
categories_of(its) == {its[k].category : k \in DOMAIN its}

RECURSIVE push_categories(_)
push_categories(cats) ==
    IF cats = <<>> THEN <<>>
    ELSE <<"-", " ">> \o Head(cats) \o <<"\n">> \o push_categories(Tail(cats))

\* Some("CATEGORIES"): catOrder is the iteration order of the HashSet
categories_arm(catOrder) == STR_CAT_HEADER \o push_categories(catOrder)

\* a default arm that answers nothing
default_arm_Empty == <<>>

\* the default arm
default_arm == STR_HELP

\* the arm a typed command runs
dispatch(cmd, its, order, catOrder) ==
    CASE cmd.kind = "Head" -> head_arm
      [] cmd.kind = "List" -> list_arm(cmd.arg, its, order)
      [] cmd.kind = "Get" -> get_arm(cmd.arg, its)
      [] cmd.kind = "Search" -> search_arm(cmd.arg, its, order)
      [] cmd.kind = "Categories" -> categories_arm(catOrder)
      [] OTHER -> default_arm

handle_command(command, its, order, catOrder) ==
    dispatch(parse_command(command), its, order, catOrder)

\* takes_read_lock when the lock is taken before the match, for every arm
takes_read_lock_EveryArm(cmd) == TRUE

\* the arms that begin with self.items.read().await
takes_read_lock(cmd) == cmd.kind \in {"List", "Get", "Search", "Categories"}

----------------------------------------------------------------------------
(* Initial states of the three parts of the model.                         *)

\* the connections peers open against the server: two, so that one handler
\* can fail or close while another goes on
Conns == {1, 2}
Workers == 1..MaxN

NotParsed == [kind |-> "none", arg |-> <<>>]

\* server main up to the accept loop: the Catalog is built, the listener is
\* bound, the ctrl_c task is spawned and nothing is accepted yet
ServerInit ==
    /\ items = BazaarServer_new
    /\ iterOrder \in hash_orders(DOMAIN BazaarServer_new)
    /\ readers = {}
    /\ mainPc = "select"
    /\ shutdown = FALSE
    /\ sigFired = FALSE
    /\ conn = [c \in Conns |-> "idle"]
    /\ inflight = [c \in Conns |-> <<>>]
    /\ pc = [c \in Conns |-> "NotSpawned"]
    /\ buffer = [c \in Conns |-> <<>>]
    /\ request = [c \in Conns |-> <<>>]
    /\ arm = [c \in Conns |-> NotParsed]
    /\ response = [c \in Conns |-> <<>>]
    /\ lastIo = [c \in Conns |-> "none"]
    /\ nReads = [c \in Conns |-> 0]
    /\ nWrites = [c \in Conns |-> 0]
    /\ linesSent = [c \in Conns |-> 0]

\* no input is handed to handle_command
CmdIdle ==
    /\ cmdTokens = <<>>
    /\ cmdLayout = 1
    /\ cmdIn = <<>>
    /\ cmdParsed = NotParsed
    /\ cmdOut = <<>>
    /\ cmdCatOrder = <<>>

\* the Stats of the harness as constructed, for the arguments n and t
StressStart(n, t) ==
    /\ concurrency = n
    /\ total_requests = t
    /\ stressPc = "spawning"
    /\ spawned = 0
    /\ joined = 0
    /\ wpc = [w \in Workers |-> "unspawned"]
    /\ wleft = [w \in Workers |-> 0]
    /\ wissued = [w \in Workers |-> 0]
    /\ welapsed = [w \in Workers |-> 0]
    /\ requests_sent = 0
    /\ requests_succeeded = 0
    /\ requests_failed = 0
    /\ total_time_ns = 0
    /\ report = <<>>

----------------------------------------------------------------------------
(* handle_command as a function of its input: SpecCmd.                     *)

TOK_head_mixed == <<"h", "E", "a", "D">>
TOK_get_lower == <<"g", "e", "t">>
TOK_3 == <<"3">>
TOK_GAMING_upper == <<"G", "A", "M", "I", "N", "G">>
TOK_NES_upper == <<"N", "E", "S">>

\* the tokens inputs are made of: the five command words, two of them also in
\* another case, the two ids of the Catalog and one that is not, a category
\* in lower and in upper case and a word of a name (ids, categories and
\* command words also serve as search terms and as unrecognized first
\* tokens: "1" occurs in both descriptions, "3" in one, "NES" in one name)
CmdTokenSet ==
    {STR_HEAD, TOK_head_mixed, STR_LIST, STR_GET, TOK_get_lower, STR_SEARCH,
     STR_CATEGORIES, ITEM1_ID, ITEM2_ID, TOK_3, ITEM1_CATEGORY,
     TOK_GAMING_upper, TOK_NES_upper}

\* the tokens that follow the second one: no arm reads parts beyond parts[1]
ExtraTokenSet == {TOK_3, STR_HEAD, ITEM1_CATEGORY}

\* the token sequences of the inputs
CmdTokenSeqs ==
    {t \in UNION {[1..n -> CmdTokenSet] : n \in 0..MaxTokens} :
        \A i \in 3..Len(t) : t[i] \in ExtraTokenSet}

\* white space before the first token, between tokens and after the last
Layouts ==
    << [lead |-> <<>>, sep |-> <<" ">>, trail |-> <<"\n">>],
       [lead |-> <<" ">>, sep |-> <<"\t", " ">>, trail |-> <<"\r", "\n">>],
       [lead |-> <<"\n">>, sep |-> <<" ">>, trail |-> <<>>] >>

RECURSIVE join_tokens(_, _)
join_tokens(tokens, sep) ==
    IF tokens = <<>> THEN <<>>
    ELSE IF Len(tokens) = 1 THEN Head(tokens)
    ELSE Head(tokens) \o sep \o join_tokens(Tail(tokens), sep)

layout_text(tokens, l) ==
    Layouts[l].lead \o join_tokens(tokens, Layouts[l].sep) \o Layouts[l].trail

InitCmd ==
    /\ ServerInit
    /\ StressStart(0, 0)
    /\ cmdTokens \in CmdTokenSeqs
    /\ cmdLayout \in DOMAIN Layouts
    /\ cmdIn = layout_text(cmdTokens, cmdLayout)
    /\ cmdParsed = NotParsed
    /\ cmdOut = <<>>
    /\ cmdCatOrder = <<>>

\* server.handle_command(&request): the HashSet of CATEGORIES iterates in an
\* order of its own at every call
ApplyCmd ==
    /\ cmdParsed = NotParsed
    /\ \E co \in hash_orders(categories_of(items)) :
        /\ cmdCatOrder' = co
        /\ cmdParsed' = parse_command(cmdIn)
        /\ cmdOut' = handle_command(cmdIn, items, iterOrder, co)
    /\ UNCHANGED <<cmdTokens, cmdLayout, cmdIn, serverVars, stressVars>>

NextCmd == ApplyCmd

SpecCmd == InitCmd /\ [][NextCmd]_vars

----------------------------------------------------------------------------
(* The stress harness: SpecStress.                                         *)

\* what stream.read may put in the buffer: the server's "OK\n", the same
\* without or with other white space, a reply in another case, the first
\* byte of a reply that arrives in two pieces, and the help text
Replies ==
    {STR_OK, <<"O", "K">>, <<" ", "O", "K", "\r", "\n">>, <<"o", "k", "\n">>,
     <<"O">>, STR_HELP}

\* request_start.elapsed().as_nanos() as usize
ElapsedVals == {1, 2}

\* one turn of for _ in 0..concurrency: requests_per_worker is computed and
\* the worker is spawned with it
SpawnWorker ==
    /\ stressPc = "spawning"
    /\ spawned < concurrency
    /\ LET requests_per_worker == total_requests \div concurrency
       IN  /\ wleft' = [wleft EXCEPT ![spawned + 1] = requests_per_worker]
           /\ wpc' = [wpc EXCEPT ![spawned + 1] = "loop"]
    /\ spawned' = spawned + 1
    /\ UNCHANGED <<concurrency, total_requests, stressPc, joined, wissued,
                   welapsed,
                   requests_sent, requests_succeeded, requests_failed,
                   total_time_ns, report, serverVars, cmdVars>>

\* the spawn loop ends
SpawnDone ==
    /\ stressPc = "spawning"
    /\ spawned = concurrency
    /\ stressPc' = "joining"
    /\ UNCHANGED <<concurrency, total_requests, spawned, joined, wpc, wleft,
                   wissued,
                   welapsed, requests_sent, requests_succeeded,
                   requests_failed, total_time_ns, report, serverVars, cmdVars>>

\* count_failed with the increment forgotten in the failure arms
count_failed_NoIncrement(w) ==
    /\ wpc' = [wpc EXCEPT ![w] = "loop"]
    /\ UNCHANGED <<requests_failed, requests_succeeded, welapsed>>

\* count_failed where a failed request ends the worker's loop
count_failed_EndsWorker(w) ==
    /\ requests_failed' = requests_failed + 1
    /\ wpc' = [wpc EXCEPT ![w] = "finished"]
    /\ UNCHANGED <<requests_succeeded, welapsed>>

\* the arms that count a failure (after a non-OK reply, an empty or failed
\* read, a failed write, a failed connect): failed is incremented and the
\* loop goes on
count_failed(w) ==
    /\ requests_failed' = requests_failed + 1
    /\ wpc' = [wpc EXCEPT ![w] = "loop"]
    /\ UNCHANGED <<requests_succeeded, welapsed>>

\* WorkerRequest with the increment of requests_sent left out
WorkerRequest_SentNotCounted(w) ==
    /\ wpc[w] = "loop"
    /\ wleft[w] > 0
    /\ wleft' = [wleft EXCEPT ![w] = wleft[w] - 1]
    /\ wissued' = [wissued EXCEPT ![w] = wissued[w] + 1]
    /\ wpc' = [wpc EXCEPT ![w] = "connect"]
    /\ UNCHANGED <<concurrency, total_requests, stressPc, spawned, joined,
                   welapsed, requests_sent, requests_succeeded,
                   requests_failed, total_time_ns, report, serverVars,
                   cmdVars>>

\* one turn of for _ in 0..requests_per_worker: sent is incremented and the
\* connect is started
WorkerRequest(w) ==
    /\ wpc[w] = "loop"
    /\ wleft[w] > 0
    /\ wleft' = [wleft EXCEPT ![w] = wleft[w] - 1]
    /\ wissued' = [wissued EXCEPT ![w] = wissued[w] + 1]
    /\ requests_sent' = requests_sent + 1
    /\ wpc' = [wpc EXCEPT ![w] = "connect"]
    /\ UNCHANGED <<concurrency, total_requests, stressPc, spawned, joined,
                   welapsed, requests_succeeded, requests_failed,
                   total_time_ns, report, serverVars, cmdVars>>

\* the worker's loop ends and its task completes
WorkerFinish(w) ==
    /\ wpc[w] = "loop"
    /\ wleft[w] = 0
    /\ wpc' = [wpc EXCEPT ![w] = "finished"]
    /\ UNCHANGED <<concurrency, total_requests, stressPc, spawned, joined,
                   wleft, wissued, welapsed, requests_sent, requests_succeeded,
                   requests_failed, total_time_ns, report, serverVars, cmdVars>>

\* TcpStream::connect: Ok(stream) or Err(_)
WorkerConnect(w) ==
    /\ wpc[w] = "connect"
    /\ \/ /\ wpc' = [wpc EXCEPT ![w] = "write"]
          /\ UNCHANGED <<requests_succeeded, requests_failed, welapsed>>
       \/ count_failed(w)
    /\ UNCHANGED <<concurrency, total_requests, stressPc, spawned, joined,
                   wleft, wissued, requests_sent, total_time_ns, report, serverVars,
                   cmdVars>>

\* stream.write_all(b"HEAD").await.is_ok()
WorkerWrite(w) ==
    /\ wpc[w] = "write"
    /\ \/ /\ wpc' = [wpc EXCEPT ![w] = "read"]
          /\ UNCHANGED <<requests_succeeded, requests_failed, welapsed>>
       \/ count_failed(w)
    /\ UNCHANGED <<concurrency, total_requests, stressPc, spawned, joined,
                   wleft, wissued, requests_sent, total_time_ns, report, serverVars,
                   cmdVars>>

\* WorkerRead taking the elapsed time of every reply, "OK" or not
WorkerRead_TimesEveryReply(w) ==
    /\ wpc[w] = "read"
    /\ \/ \E reply \in Replies, elapsed \in ElapsedVals :
            /\ IF trim(from_utf8_lossy(reply)) = <<"O", "K">>
               THEN /\ requests_succeeded' = requests_succeeded + 1
                    /\ UNCHANGED requests_failed
               ELSE /\ requests_failed' = requests_failed + 1
                    /\ UNCHANGED requests_succeeded
            /\ welapsed' = [welapsed EXCEPT ![w] = elapsed]
            /\ wpc' = [wpc EXCEPT ![w] = "add_time"]
       \/ count_failed(w)
    /\ UNCHANGED <<concurrency, total_requests, stressPc, spawned, joined,
                   wleft, wissued, requests_sent, total_time_ns, report,
                   serverVars, cmdVars>>

\* stream.read: Ok(n) if n > 0 with a reply that trims to "OK" or not, and
\* the other outcomes (Ok(0), Err)
WorkerRead(w) ==
    /\ wpc[w] = "read"
    /\ \/ \E reply \in Replies :
            IF trim(from_utf8_lossy(reply)) = <<"O", "K">>
            THEN /\ requests_succeeded' = requests_succeeded + 1
                 /\ \E elapsed \in ElapsedVals :
                        welapsed' = [welapsed EXCEPT ![w] = elapsed]
                 /\ wpc' = [wpc EXCEPT ![w] = "add_time"]
                 /\ UNCHANGED requests_failed
            ELSE count_failed(w)
       \/ count_failed(w)
    /\ UNCHANGED <<concurrency, total_requests, stressPc, spawned, joined,
                   wleft, wissued, requests_sent, total_time_ns, report, serverVars,
                   cmdVars>>

\* stats.total_time_ns.fetch_add(elapsed), after succeeded was incremented
WorkerAddTime(w) ==
    /\ wpc[w] = "add_time"
    /\ total_time_ns' = total_time_ns + welapsed[w]
    /\ welapsed' = [welapsed EXCEPT ![w] = 0]
    /\ wpc' = [wpc EXCEPT ![w] = "loop"]
    /\ UNCHANGED <<concurrency, total_requests, stressPc, spawned, joined,
                   wleft, wissued, requests_sent, requests_succeeded, requests_failed,
                   report, serverVars, cmdVars>>

\* for handle in handles { let _ = handle.await; }: the handles are awaited
\* in the order the workers were spawned
JoinWorker ==
    /\ stressPc = "joining"
    /\ joined < concurrency
    /\ wpc[joined + 1] = "finished"
    /\ joined' = joined + 1
    /\ UNCHANGED <<concurrency, total_requests, stressPc, spawned, wpc, wleft,
                   wissued,
                   welapsed, requests_sent, requests_succeeded,
                   requests_failed, total_time_ns, report, serverVars, cmdVars>>

\* the report loads the counters once every worker is joined
Report ==
    /\ stressPc = "joining"
    /\ joined = concurrency
    /\ report' = [sent |-> requests_sent, succeeded |-> requests_succeeded,
                  failed |-> requests_failed, total_time_ns |-> total_time_ns]
    /\ stressPc' = "done"
    /\ UNCHANGED <<concurrency, total_requests, spawned, joined, wpc, wleft,
                   wissued,
                   welapsed, requests_sent, requests_succeeded,
                   requests_failed, total_time_ns, serverVars, cmdVars>>

InitStress ==
    /\ ServerInit
    /\ CmdIdle
    /\ \E n \in 0..MaxN, t \in 0..MaxT : StressStart(n, t)

NextStress ==
    \/ SpawnWorker
    \/ SpawnDone
    \/ \E w \in Workers : WorkerRequest(w)
    \/ \E w \in Workers : WorkerFinish(w)
    \/ \E w \in Workers : WorkerConnect(w)
    \/ \E w \in Workers : WorkerWrite(w)
    \/ \E w \in Workers : WorkerRead(w)
    \/ \E w \in Workers : WorkerAddTime(w)
    \/ JoinWorker
    \/ Report

SpecStress == InitStress /\ [][NextStress]_vars


----------------------------------------------------------------------------
(* The server: the accept loop of main and handle_connection: Spec.        *)

L_HEAD == <<"H", "E", "A", "D", "\n">>
L_BAD == <<BYTE_INVALID, "\n">>

\* the newline-terminated lines a peer sends: a command, and a line that is
\* no valid UTF-8 (a read may return any piece of them: "HE", "AD\n", "\n")
PeerLines == {L_HEAD, L_BAD}

\* main has returned: the runtime of #[tokio::main] is dropped and with it
\* every task still running; the process ends
terminated == mainPc = "returned"

Min(a, b) == IF a < b THEN a ELSE b

\* socket.read(&mut buffer) returning Ok(Len(data)): the bytes read take the
\* place of the first bytes of the buffer and the rest of it stays
read_into(buf, data) == data \o SubSeq(buf, Len(data) + 1, Len(buf))

RECURSIVE SumOver(_, _)
SumOver(f, S) ==
    IF S = {} THEN 0
    ELSE LET x == CHOOSE y \in S : TRUE IN f[x] + SumOver(f, S \ {x})

\* a peer connects: the connection waits in the listener's queue
PeerConnect(c) ==
    /\ ~terminated
    /\ conn[c] = "idle"
    /\ conn' = [conn EXCEPT ![c] = "pending"]
    /\ UNCHANGED <<inflight, linesSent, catalogVars, mainVars,
                   handlerVars, cmdVars, stressVars>>

\* a peer writes one line to its accepted socket
PeerSend(c, line) ==
    /\ ~terminated
    /\ conn[c] = "open"
    /\ SumOver(linesSent, Conns) < MaxLines
    /\ inflight' = [inflight EXCEPT ![c] = inflight[c] \o line]
    /\ linesSent' = [linesSent EXCEPT ![c] = linesSent[c] + 1]
    /\ UNCHANGED <<conn, catalogVars, mainVars, handlerVars,
                   cmdVars, stressVars>>

\* CtrlC with notify_waiters() in the place of notify_one(): only a task
\* that is waiting is woken, and no permit is stored for a later notified()
CtrlC_NotifyWaiters ==
    /\ ~terminated
    /\ ~sigFired
    /\ sigFired' = TRUE
    /\ shutdown' = (mainPc \in {"select", "select_accept_disabled"})
    /\ UNCHANGED <<mainPc, catalogVars, peerVars, handlerVars,
                   cmdVars, stressVars>>

\* the ctrl_c task: signal::ctrl_c() completes and notify_one() stores a
\* permit (or wakes main, which then finds the permit at its notified())
CtrlC ==
    /\ ~terminated
    /\ ~sigFired
    /\ sigFired' = TRUE
    /\ shutdown' = TRUE
    /\ UNCHANGED <<mainPc, catalogVars, peerVars, handlerVars,
                   cmdVars, stressVars>>

\* Accept by a loop that does not stop at the shutdown notification
Accept_AfterShutdown(c) ==
    /\ mainPc # "spawn"
    /\ conn[c] = "pending"
    /\ conn' = [conn EXCEPT ![c] = "open"]
    /\ mainPc' = "spawn"
    /\ UNCHANGED <<inflight, linesSent, shutdown, sigFired,
                   handlerVars, catalogVars, cmdVars, stressVars>>

\* select!: Ok((socket, _)) = listener.accept(): the connection is
\* established and main enters the body of the branch
Accept(c) ==
    /\ mainPc = "select"
    /\ conn[c] = "pending"
    /\ conn' = [conn EXCEPT ![c] = "open"]
    /\ mainPc' = "spawn"
    /\ UNCHANGED <<inflight, linesSent, shutdown, sigFired,
                   handlerVars, catalogVars, cmdVars, stressVars>>

\* the body of the accept branch: tokio::spawn(handle_connection(socket,
\* server_ref)); the handler starts at its first read and main is back at
\* the select!
SpawnHandler(c) ==
    /\ mainPc = "spawn"
    /\ conn[c] = "open"
    /\ pc[c] = "NotSpawned"
    /\ pc' = [pc EXCEPT ![c] = "Reading"]
    /\ mainPc' = "select"
    /\ UNCHANGED <<buffer, arm, request, response, lastIo, nReads, nWrites,
                   shutdown, sigFired, peerVars, catalogVars, cmdVars,
                   stressVars>>

\* select!: listener.accept() yields Err: the pattern Ok(..) does not match,
\* the branch is disabled and this select! waits on shutdown.notified() alone
AcceptErr ==
    /\ mainPc = "select"
    /\ mainPc' = "select_accept_disabled"
    /\ UNCHANGED <<shutdown, sigFired, catalogVars, peerVars,
                   handlerVars, cmdVars, stressVars>>

\* select!: _ = shutdown.notified(): the permit is consumed and the loop
\* breaks; proxy_task.abort(), the println! and Ok(()) follow with no await
\* between them, so main returns in the same step
ObserveShutdown ==
    /\ mainPc \in {"select", "select_accept_disabled"}
    /\ shutdown
    /\ shutdown' = FALSE
    /\ mainPc' = "returned"
    /\ UNCHANGED <<sigFired, catalogVars, peerVars, handlerVars,
                   cmdVars, stressVars>>

\* socket.read(&mut buffer): Ok(n), n > 0: any non-empty prefix of the bytes
\* in flight that fits the buffer; the request is the lossy decoding of
\* buffer[..n]
ReadData(c) ==
    /\ ~terminated
    /\ pc[c] = "Reading"
    /\ inflight[c] # <<>>
    /\ \E n \in 1..Min(Len(inflight[c]), BUFFER_SIZE) :
        /\ buffer' = [buffer EXCEPT
                          ![c] = read_into(buffer[c], SubSeq(inflight[c], 1, n))]
        /\ request' = [request EXCEPT
                          ![c] = from_utf8_lossy(SubSeq(buffer'[c], 1, n))]
        /\ inflight' = [inflight EXCEPT
                          ![c] = SubSeq(inflight[c], n + 1, Len(inflight[c]))]
    /\ arm' = [arm EXCEPT ![c] = parse_command(request'[c])]
    /\ pc' = [pc EXCEPT ![c] = "Dispatching"]
    /\ lastIo' = [lastIo EXCEPT ![c] = "read_n"]
    /\ nReads' = [nReads EXCEPT ![c] = nReads[c] + 1]
    /\ UNCHANGED <<conn, linesSent, response, nWrites, catalogVars,
                   mainVars, cmdVars, stressVars>>

\* ReadZero without the break: the loop reads again after Ok(0)
ReadZero_KeepsReading(c) ==
    /\ ~terminated
    /\ pc[c] = "Reading"
    /\ conn[c] = "open"
    /\ inflight[c] = <<>>
    /\ conn' = [conn EXCEPT ![c] = "peer_closed"]
    /\ lastIo' = [lastIo EXCEPT ![c] = "read_0"]
    /\ UNCHANGED <<buffer, arm, inflight, linesSent, pc, request, response, nReads, nWrites,
                   catalogVars, mainVars, cmdVars, stressVars>>

\* socket.read: Ok(0): the peer closes its socket and every byte it sent
\* was read
ReadZero(c) ==
    /\ ~terminated
    /\ pc[c] = "Reading"
    /\ conn[c] = "open"
    /\ inflight[c] = <<>>
    /\ conn' = [conn EXCEPT ![c] = "peer_closed"]
    /\ pc' = [pc EXCEPT ![c] = "Closed"]
    /\ lastIo' = [lastIo EXCEPT ![c] = "read_0"]
    /\ buffer' = [buffer EXCEPT ![c] = <<>>]
    /\ UNCHANGED <<arm, inflight, linesSent, request, response, nReads, nWrites,
                   catalogVars, mainVars, cmdVars, stressVars>>

\* ReadErr where the error leaves the task and ends the process
ReadErr_EndsProcess(c) ==
    /\ ~terminated
    /\ pc[c] = "Reading"
    /\ pc' = [pc EXCEPT ![c] = "Closed"]
    /\ lastIo' = [lastIo EXCEPT ![c] = "read_err"]
    /\ conn' = [conn EXCEPT ![c] = "dropped"]
    /\ inflight' = [inflight EXCEPT ![c] = <<>>]
    /\ mainPc' = "returned"
    /\ buffer' = [buffer EXCEPT ![c] = <<>>]
    /\ UNCHANGED <<arm, linesSent, request, response, nReads, nWrites, shutdown,
                   sigFired, catalogVars, cmdVars, stressVars>>

\* socket.read: Err(e): break; the socket is dropped as handle_connection
\* returns, and with it the bytes not read
ReadErr(c) ==
    /\ ~terminated
    /\ pc[c] = "Reading"
    /\ pc' = [pc EXCEPT ![c] = "Closed"]
    /\ lastIo' = [lastIo EXCEPT ![c] = "read_err"]
    /\ conn' = [conn EXCEPT ![c] = "dropped"]
    /\ inflight' = [inflight EXCEPT ![c] = <<>>]
    /\ buffer' = [buffer EXCEPT ![c] = <<>>]
    /\ UNCHANGED <<arm, linesSent, request, response, nReads, nWrites, catalogVars,
                   mainVars, cmdVars, stressVars>>

\* Dispatch that hands the response to a task of its own and reads on
Dispatch_Pipelined(c) ==
    /\ ~terminated
    /\ pc[c] = "Dispatching"
    /\ \E co \in hash_orders(categories_of(items)) :
        response' = [response EXCEPT
                        ![c] = dispatch(arm[c], items, iterOrder, co)]
    /\ pc' = [pc EXCEPT ![c] = "Reading"]
    /\ UNCHANGED <<buffer, arm, request, lastIo, nReads, nWrites, catalogVars, mainVars,
                   peerVars, cmdVars, stressVars>>

\* server.handle_command(&request).await, in the arms that take no lock
\* (HEAD and the default arm)
Dispatch(c) ==
    /\ ~terminated
    /\ pc[c] = "Dispatching"
    /\ ~takes_read_lock(arm[c])
    /\ \E co \in hash_orders(categories_of(items)) :
        response' = [response EXCEPT
                        ![c] = dispatch(arm[c], items, iterOrder, co)]
    /\ pc' = [pc EXCEPT ![c] = "Writing"]
    /\ UNCHANGED <<buffer, arm, request, lastIo, nReads, nWrites, catalogVars, mainVars,
                   peerVars, cmdVars, stressVars>>

\* socket.write_all(response.as_bytes()): Ok: request and response are
\* dropped at the end of the arm and the loop returns to the read
WriteOk(c) ==
    /\ ~terminated
    /\ pc[c] = "Writing"
    /\ nWrites' = [nWrites EXCEPT ![c] = nWrites[c] + 1]
    /\ request' = [request EXCEPT ![c] = <<>>]
    /\ arm' = [arm EXCEPT ![c] = NotParsed]
    /\ response' = [response EXCEPT ![c] = <<>>]
    /\ pc' = [pc EXCEPT ![c] = "Reading"]
    /\ lastIo' = [lastIo EXCEPT ![c] = "write_ok"]
    /\ UNCHANGED <<buffer, nReads, catalogVars, mainVars, peerVars, cmdVars,
                   stressVars>>

\* socket.write_all: Err(e): break; the socket is dropped
WriteErr(c) ==
    /\ ~terminated
    /\ pc[c] = "Writing"
    /\ request' = [request EXCEPT ![c] = <<>>]
    /\ arm' = [arm EXCEPT ![c] = NotParsed]
    /\ response' = [response EXCEPT ![c] = <<>>]
    /\ pc' = [pc EXCEPT ![c] = "Closed"]
    /\ lastIo' = [lastIo EXCEPT ![c] = "write_err"]
    /\ conn' = [conn EXCEPT ![c] = "dropped"]
    /\ inflight' = [inflight EXCEPT ![c] = <<>>]
    /\ buffer' = [buffer EXCEPT ![c] = <<>>]
    /\ UNCHANGED <<linesSent, nReads, nWrites, catalogVars, mainVars, cmdVars,
                   stressVars>>

Init ==
    /\ ServerInit
    /\ CmdIdle
    /\ StressStart(0, 0)

Next ==
    \/ \E c \in Conns : PeerConnect(c)
    \/ \E c \in Conns, line \in PeerLines : PeerSend(c, line)
    \/ CtrlC
    \/ \E c \in Conns : Accept(c)
    \/ \E c \in Conns : SpawnHandler(c)
    \/ AcceptErr
    \/ ObserveShutdown
    \/ \E c \in Conns : ReadData(c)
    \/ \E c \in Conns : ReadZero(c)
    \/ \E c \in Conns : ReadErr(c)
    \/ \E c \in Conns : Dispatch(c)
    \/ \E c \in Conns : WriteOk(c)
    \/ \E c \in Conns : WriteErr(c)

Spec == Init /\ [][Next]_vars

\* the main task is scheduled: once it can spawn the handler of the
\* connection it accepted it does, and a select! whose notified() branch
\* stays ready completes with it once no accept is left to win
SpecLive ==
    /\ Spec
    /\ WF_vars(\E c \in Conns : SpawnHandler(c))
    /\ WF_vars(ObserveShutdown)

----------------------------------------------------------------------------
(* Further properties of the accept loop, checked under Spec.              *)

\* C18: as long as main has not left the accept loop and is not busy
\* spawning a handler, a connection waiting in the listener can be accepted,
\* whether or not an accept has failed before.
C18_AcceptErrorDoesNotStopAccepting ==
    \A c \in Conns :
        (conn[c] = "pending" /\ ~terminated /\ mainPc # "spawn") =>
            ENABLED Accept(c)

\* C19: from the moment the interrupt has fired until main leaves the loop
\* the notification is stored, also when it fired while main was in the body
\* of the accept branch and not waiting for it; and main then does leave the
\* loop.
C19_ShutdownNeverLost ==
    /\ []((sigFired /\ ~terminated) => shutdown)
    /\ (sigFired ~> terminated)

\* the interrupt has fired while main is spawning the handler of a
\* connection it accepted: the notification is stored
C19_Witness ==
    /\ sigFired
    /\ mainPc = "spawn"
    /\ shutdown
    /\ \E c \in Conns : conn[c] = "open" /\ pc[c] = "NotSpawned"

----------------------------------------------------------------------------
(* The server with clients that send one command and wait for its answer,  *)
(* and reads that return the whole command: SpecSession.                   *)

L_LIST == <<"L", "I", "S", "T", "\n">>
L_GET == <<"G", "E", "T", " ", "1", "\n">>
L_SEARCH == <<"S", "E", "A", "R", "C", "H", " ", "3", "\n">>
L_CATEGORIES == <<"C", "A", "T", "E", "G", "O", "R", "I", "E", "S", "\n">>

\* one line for each arm of handle_command
CommandLines == {L_HEAD, L_LIST, L_GET, L_SEARCH, L_CATEGORIES, L_BAD}

\* send_command: the client writes a command once every command it sent
\* before has been answered
ClientSend(c, line) ==
    /\ ~terminated
    /\ conn[c] = "open"
    /\ inflight[c] = <<>>
    /\ nWrites[c] = linesSent[c]
    /\ SumOver(linesSent, Conns) < MaxRequests
    /\ inflight' = [inflight EXCEPT ![c] = line]
    /\ linesSent' = [linesSent EXCEPT ![c] = linesSent[c] + 1]
    /\ UNCHANGED <<conn, catalogVars, mainVars, handlerVars,
                   cmdVars, stressVars>>

\* ReadAll decoding the buffer up to the last byte ever written, not
\* buffer[..n]
ReadAll_DecodesStaleBytes(c) ==
    /\ ~terminated
    /\ pc[c] = "Reading"
    /\ inflight[c] # <<>>
    /\ Len(inflight[c]) <= BUFFER_SIZE
    /\ buffer' = [buffer EXCEPT ![c] = read_into(buffer[c], inflight[c])]
    /\ request' = [request EXCEPT ![c] = from_utf8_lossy(buffer'[c])]
    /\ inflight' = [inflight EXCEPT ![c] = <<>>]
    /\ arm' = [arm EXCEPT ![c] = parse_command(request'[c])]
    /\ pc' = [pc EXCEPT ![c] = "Dispatching"]
    /\ lastIo' = [lastIo EXCEPT ![c] = "read_n"]
    /\ nReads' = [nReads EXCEPT ![c] = nReads[c] + 1]
    /\ UNCHANGED <<conn, linesSent, response, nWrites, catalogVars,
                   mainVars, cmdVars, stressVars>>

\* socket.read(&mut buffer): Ok(n) with every byte in flight
ReadAll(c) ==
    /\ ~terminated
    /\ pc[c] = "Reading"
    /\ inflight[c] # <<>>
    /\ Len(inflight[c]) <= BUFFER_SIZE
    /\ buffer' = [buffer EXCEPT ![c] = read_into(buffer[c], inflight[c])]
    /\ request' = [request EXCEPT
                      ![c] = from_utf8_lossy(
                                SubSeq(buffer'[c], 1, Len(inflight[c])))]
    /\ inflight' = [inflight EXCEPT ![c] = <<>>]
    /\ arm' = [arm EXCEPT ![c] = parse_command(request'[c])]
    /\ pc' = [pc EXCEPT ![c] = "Dispatching"]
    /\ lastIo' = [lastIo EXCEPT ![c] = "read_n"]
    /\ nReads' = [nReads EXCEPT ![c] = nReads[c] + 1]
    /\ UNCHANGED <<conn, linesSent, response, nWrites, catalogVars,
                   mainVars, cmdVars, stressVars>>

\* LockRead with a lock that one handler holds at a time
LockRead_Exclusive(c) ==
    /\ ~terminated
    /\ pc[c] = "Dispatching"
    /\ takes_read_lock(arm[c])
    /\ readers = {}
    /\ readers' = readers \cup {c}
    /\ UNCHANGED <<items, iterOrder, mainVars, peerVars, handlerVars,
                   cmdVars, stressVars>>

\* let items = self.items.read().await: there is no writer, so the read
\* guard is granted whoever else holds one
LockRead(c) ==
    /\ ~terminated
    /\ pc[c] = "Dispatching"
    /\ takes_read_lock(arm[c])
    /\ c \notin readers
    /\ readers' = readers \cup {c}
    /\ UNCHANGED <<items, iterOrder, mainVars, peerVars, handlerVars,
                   cmdVars, stressVars>>

\* ArmReturn where the arm takes item 1 out of the map
ArmReturn_RemovesItem(c) ==
    /\ ~terminated
    /\ pc[c] = "Dispatching"
    /\ c \in readers
    /\ \E co \in hash_orders(categories_of(items)) :
        response' = [response EXCEPT
                        ![c] = dispatch(arm[c], items, iterOrder, co)]
    /\ items' = [k \in DOMAIN items \ {ITEM1_ID} |-> items[k]]
    /\ readers' = readers \ {c}
    /\ pc' = [pc EXCEPT ![c] = "Writing"]
    /\ UNCHANGED <<buffer, arm, iterOrder, request, lastIo, nReads, nWrites,
                   mainVars, peerVars, cmdVars, stressVars>>

\* the arm computes its answer under the guard and returns it: the guard is
\* dropped as handle_command returns, before write_all
ArmReturn(c) ==
    /\ ~terminated
    /\ pc[c] = "Dispatching"
    /\ c \in readers
    /\ \E co \in hash_orders(categories_of(items)) :
        response' = [response EXCEPT
                        ![c] = dispatch(arm[c], items, iterOrder, co)]
    /\ readers' = readers \ {c}
    /\ pc' = [pc EXCEPT ![c] = "Writing"]
    /\ UNCHANGED <<buffer, arm, items, iterOrder, request, lastIo, nReads, nWrites,
                   mainVars, peerVars, cmdVars, stressVars>>

NextSession ==
    \/ \E c \in Conns : PeerConnect(c)
    \/ \E c \in Conns, line \in CommandLines : ClientSend(c, line)
    \/ CtrlC
    \/ \E c \in Conns : Accept(c)
    \/ \E c \in Conns : SpawnHandler(c)
    \/ AcceptErr
    \/ ObserveShutdown
    \/ \E c \in Conns : ReadAll(c)
    \/ \E c \in Conns : ReadZero(c)
    \/ \E c \in Conns : ReadErr(c)
    \/ \E c \in Conns : Dispatch(c)
    \/ \E c \in Conns : LockRead(c)
    \/ \E c \in Conns : ArmReturn(c)
    \/ \E c \in Conns : WriteOk(c)
    \/ \E c \in Conns : WriteErr(c)

SpecSession == Init /\ [][NextSession]_vars

\* every handler is a task of its own that the runtime schedules: a handler
\* that can go on with its dispatch (take the guard, compute the answer and
\* return) does
SpecSessionLive ==
    /\ SpecSession
    /\ \A c \in Conns :
            WF_vars(Dispatch(c) \/ LockRead(c) \/ ArmReturn(c))

----------------------------------------------------------------------------
(* Properties of the stress harness, checked under SpecStress.             *)

\* C1: once every worker has been joined and the report has loaded the
\* counters, requests_sent = requests_succeeded + requests_failed, for every
\* concurrency, every total_requests and every outcome of each request.
C1_SentIsSucceededPlusFailed ==
    stressPc = "done" =>
        /\ requests_sent = requests_succeeded + requests_failed
        /\ report.sent = report.succeeded + report.failed

\* a completed run of several workers with requests of both outcomes
C1_Witness ==
    /\ stressPc = "done"
    /\ concurrency > 1
    /\ report.succeeded > 0
    /\ report.failed > 0

\* C2: each of the N workers issues exactly floor(T/N) requests whatever
\* their outcomes, the final requests_sent is N * floor(T/N), and the T mod N
\* remaining requests are never issued.
C2_IntegerDivisionPartition ==
    stressPc = "done" =>
        IF concurrency = 0 THEN requests_sent = 0
        ELSE /\ \A w \in 1..concurrency :
                    wissued[w] = total_requests \div concurrency
             /\ requests_sent = concurrency * (total_requests \div concurrency)
             /\ requests_sent = total_requests - (total_requests % concurrency)

\* a completed run with a remainder, in which a request failed and the
\* worker went on to issue another
C2_Witness ==
    /\ stressPc = "done"
    /\ concurrency > 1
    /\ total_requests % concurrency # 0
    /\ total_requests \div concurrency > 1
    /\ requests_failed > 0
    /\ requests_sent < total_requests

----------------------------------------------------------------------------
(* Properties of the server, checked under Spec.                           *)

Running == {"Reading", "Dispatching", "Writing"}

IoFailures == {"read_0", "read_err", "write_err"}

\* C3, as stated: after the interrupt every handler already spawned keeps
\* reading, dispatching and writing until its own socket closes or fails, so
\* a handler that has not closed is still able to run.
C3_HandlersRunUntilSocketCloses ==
    \A c \in Conns : pc[c] \in Running => ~terminated

\* C3, amended: the accept loop exits only on the shutdown notification, and
\* the exit joins no handler and closes none; from then on main has returned
\* and nothing more is accepted and no handler reads, dispatches or writes,
\* whether or not its socket has closed or failed.
C3_ShutdownStopsAcceptAndHandlers ==
    [][/\ (~terminated /\ terminated') =>
            (shutdown /\ handlerVars' = handlerVars /\ peerVars' = peerVars)
       /\ terminated =>
            (conn' = conn /\ handlerVars' = handlerVars)]_vars

\* main has returned while one handler holds a response it never wrote and
\* another connection was never accepted
C3_Witness ==
    /\ terminated
    /\ \E c, d \in Conns :
        /\ pc[c] = "Writing"
        /\ response[c] # <<>>
        /\ conn[d] = "pending"

\* C4: every request the handler parses is one whole line a peer sent, and
\* when the handler has read everything a peer sent it has written exactly one
\* response for each line, however the bytes were cut into reads.
C4_OneResponsePerLine ==
    \A c \in Conns :
        /\ pc[c] \in {"Dispatching", "Writing"} =>
                request[c] \in {from_utf8_lossy(l) : l \in PeerLines}
        /\ (pc[c] = "Reading" /\ inflight[c] = <<>>) =>
                nWrites[c] = linesSent[c]

\* C5: a handler moves Reading -> Dispatching -> Writing -> Reading; it is
\* Closed exactly when its latest socket operation was a read of zero bytes,
\* a failed read or a failed write; once Closed it takes no further step.
C5_HandlerStateMachine ==
    /\ [](\A c \in Conns : pc[c] = "Closed" <=> lastIo[c] \in IoFailures)
    /\ [][\A c \in Conns :
            /\ pc'[c] # pc[c] =>
                  <<pc[c], pc'[c]>> \in
                      {<<"NotSpawned", "Reading">>, <<"Reading", "Dispatching">>,
                       <<"Dispatching", "Writing">>, <<"Writing", "Reading">>,
                       <<"Reading", "Closed">>, <<"Writing", "Closed">>}
            /\ (pc[c] = "Reading" /\ pc'[c] = "Closed") =>
                  lastIo'[c] \in {"read_0", "read_err"}
            /\ (pc[c] = "Writing" /\ pc'[c] = "Closed") =>
                  lastIo'[c] = "write_err"
            /\ pc[c] = "Closed" =>
                  /\ pc'[c] = "Closed"
                  /\ request'[c] = request[c]
                  /\ response'[c] = response[c]
                  /\ lastIo'[c] = lastIo[c]
                  /\ nReads'[c] = nReads[c]
                  /\ nWrites'[c] = nWrites[c]
                  /\ inflight'[c] = inflight[c]]_vars

\* a handler that went round the loop and was then closed by a failed
\* write, and one closed by a read of zero bytes
C5_Witness ==
    \E c, d \in Conns :
        /\ pc[c] = "Closed"
        /\ lastIo[c] = "write_err"
        /\ nWrites[c] > 0
        /\ pc[d] = "Closed"
        /\ lastIo[d] = "read_0"

\* C6: on a connection at most one request is in flight: the handler is at
\* its read only when every request read so far has had its response
\* written, and while it dispatches or writes exactly one request is
\* unanswered; the response being written is that of the request last read.
C6_SequentialRequests ==
    \A c \in Conns :
        /\ pc[c] \in {"NotSpawned", "Reading"} => nReads[c] = nWrites[c]
        /\ pc[c] \in {"Dispatching", "Writing"} => nReads[c] = nWrites[c] + 1
        /\ pc[c] = "Closed" => nReads[c] - nWrites[c] \in {0, 1}
        /\ pc[c] = "Writing" =>
                \E co \in hash_orders(categories_of(items)) :
                    response[c] = handle_command(request[c], items, iterOrder, co)

\* the response to a second request is being written while bytes of a third
\* are already waiting in the socket
C6_Witness ==
    \E c \in Conns :
        /\ pc[c] = "Writing"
        /\ nWrites[c] = 1
        /\ inflight[c] # <<>>

\* C7: a step in which a handler is closed by a failed read or a failed
\* write changes nothing of any other handler, of any other socket, of the
\* accept loop or of the shutdown signal: the others keep running and main
\* does not return.
C7_FaultIsolation ==
    [][\A c \in Conns :
          (pc[c] # "Closed" /\ pc'[c] = "Closed"
                /\ lastIo'[c] \in {"read_err", "write_err"}) =>
             /\ mainVars' = mainVars
             /\ catalogVars' = catalogVars
             /\ \A d \in Conns \ {c} :
                    /\ pc'[d] = pc[d]
                    /\ request'[d] = request[d]
                    /\ response'[d] = response[d]
                    /\ conn'[d] = conn[d]
                    /\ inflight'[d] = inflight[d]]_vars

\* one handler was closed by a failed read while the accept loop still
\* selects and another handler is answering a request
C7_Witness ==
    /\ mainPc = "select"
    /\ \E c, d \in Conns :
        /\ pc[c] = "Closed"
        /\ lastIo[c] = "read_err"
        /\ pc[d] = "Writing"
        /\ response[d] = STR_OK

----------------------------------------------------------------------------
(* What the protocol says of a line, stated without the parser.            *)

CommandWords == {STR_HEAD, STR_LIST, STR_GET, STR_SEARCH, STR_CATEGORIES}

SameLetter(a, b) ==
    a = b \/ \E i \in 1..26 : {a, b} = {LowerLetters[i], UpperLetters[i]}

EqualIgnoringCase(s, t) ==
    Len(s) = Len(t) /\ \A i \in 1..Len(s) : SameLetter(s[i], t[i])

\* the first maximal run of characters of text that are not white space,
\* <<>> when there is none
FirstTokenOf(text) ==
    LET solid == {i \in 1..Len(text) : text[i] \notin {" ", "\t", "\n", "\r"}}
    IN  IF solid = {} THEN <<>>
        ELSE LET a == CHOOSE i \in solid : \A j \in solid : i <= j
                 b == CHOOSE i \in a..Len(text) :
                        /\ \A k \in a..i : k \in solid
                        /\ (i + 1) \notin solid
             IN  SubSeq(text, a, b)

Unrecognized(token) == \A w \in CommandWords : ~EqualIgnoringCase(token, w)

\* the command a sequence of tokens stands for
ExpectedKind(tokens) ==
    IF tokens = <<>> THEN "Invalid"
    ELSE IF EqualIgnoringCase(tokens[1], STR_HEAD) THEN "Head"
    ELSE IF EqualIgnoringCase(tokens[1], STR_LIST) THEN "List"
    ELSE IF EqualIgnoringCase(tokens[1], STR_GET)
         THEN IF Len(tokens) > 1 THEN "Get" ELSE "Invalid"
    ELSE IF EqualIgnoringCase(tokens[1], STR_SEARCH)
         THEN IF Len(tokens) > 1 THEN "Search" ELSE "Invalid"
    ELSE IF EqualIgnoringCase(tokens[1], STR_CATEGORIES) THEN "Categories"
    ELSE "Invalid"

ExpectedArg(tokens) ==
    IF ExpectedKind(tokens) \in {"List", "Get", "Search"} /\ Len(tokens) > 1
    THEN <<tokens[2]>>
    ELSE <<>>

\* the lines of a text, each without its newline
RECURSIVE lines_of(_, _, _)
lines_of(text, cur, acc) ==
    IF text = <<>> THEN (IF cur = <<>> THEN acc ELSE Append(acc, cur))
    ELSE IF Head(text) = "\n" THEN lines_of(Tail(text), <<>>, Append(acc, cur))
    ELSE lines_of(Tail(text), Append(cur, Head(text)), acc)

LinesOf(text) == lines_of(text, <<>>, <<>>)

\* "<id>. <name> - <price>"
ItemLine(item) ==
    item.id \o <<".", " ">> \o item.name \o <<" ", "-", " ">> \o item.price

\* C8: a request whose first token is no command word (an empty or
\* white-space-only request included) is answered with the help text; a
\* dispatch always leads to the write, never to Closed; after the write the
\* handler is back at its read unless the write itself failed; and a handler
\* is closed only by a socket failure.
C8_ProtocolFaultsNeverClose ==
    /\ [](\A c \in Conns :
            (pc[c] = "Writing" /\ Unrecognized(FirstTokenOf(request[c]))) =>
                response[c] = STR_HELP)
    /\ [][\A c \in Conns :
            /\ pc[c] = "Dispatching" => pc'[c] \in {"Dispatching", "Writing"}
            /\ (pc[c] = "Writing" /\ pc'[c] # "Writing") =>
                  (pc'[c] = "Reading" \/ lastIo'[c] = "write_err")
            /\ (pc[c] # "Closed" /\ pc'[c] = "Closed") =>
                  lastIo'[c] \in IoFailures]_vars

\* after two requests that were no commands the handler is answering a
\* third, of white space only, with the help text
C8_Witness ==
    \E c \in Conns :
        /\ pc[c] = "Writing"
        /\ nWrites[c] = 2
        /\ request[c] = <<"\n">>
        /\ response[c] = STR_HELP

----------------------------------------------------------------------------
(* Properties of handle_command, checked under SpecCmd.                    *)

\* C9: every input parses to a command: the kind is the one the first token
\* stands for whatever its case, GET and SEARCH with no argument are Invalid
\* and answered with the help text, the argument is the second token, and
\* tokens after the second change nothing of the response.
C9_ParsingByFirstToken ==
    cmdParsed # NotParsed =>
        /\ cmdParsed.kind = ExpectedKind(cmdTokens)
        /\ cmdParsed.arg = ExpectedArg(cmdTokens)
        /\ cmdParsed.kind = "Invalid" => cmdOut = STR_HELP
        /\ cmdOut # <<>>
        /\ Len(cmdTokens) > 2 =>
                cmdOut = handle_command(
                            layout_text(SubSeq(cmdTokens, 1, 2), cmdLayout),
                            items, iterOrder, cmdCatOrder)

\* "get 1 3" in lower case and with a second argument is the GET of item 1
C9_Witness ==
    /\ cmdParsed # NotParsed
    /\ cmdTokens = <<TOK_get_lower, ITEM1_ID, TOK_3>>
    /\ cmdParsed = [kind |-> "Get", arg |-> <<ITEM1_ID>>]
    /\ cmdOut # STR_HELP

\* C10: LIST alone answers one line per item of the Catalog; LIST with a
\* category answers one line for each item whose category is the filter
\* whatever its case, which is never the whole Catalog, and "No items
\* found\n" when there is no such item.
C10_ListByCategory ==
    (cmdParsed # NotParsed /\ ExpectedKind(cmdTokens) = "List") =>
        LET all == DOMAIN items
            matched ==
                IF Len(cmdTokens) = 1 THEN all
                ELSE {k \in all :
                        EqualIgnoringCase(items[k].category, cmdTokens[2])}
            lines == LinesOf(cmdOut)
        IN  /\ Len(cmdTokens) > 1 => matched # all
            /\ IF matched = {} THEN cmdOut = STR_NO_ITEMS
               ELSE /\ Len(lines) = Cardinality(matched)
                    /\ {lines[i] : i \in DOMAIN lines} =
                            {ItemLine(items[k]) : k \in matched}

\* LIST GAMING answers the one item of category "gaming"
C10_Witness ==
    /\ cmdParsed # NotParsed
    /\ cmdTokens = <<STR_LIST, TOK_GAMING_upper>>
    /\ cmdOut = ItemLine(Item1) \o <<"\n">>

\* term occurs in s as a contiguous substring, letters compared whatever
\* their case
ContainsIgnoringCase(s, term) ==
    \E i \in 0..(Len(s) - Len(term)) :
        EqualIgnoringCase(SubSeq(s, i + 1, i + Len(term)), term)

\* the lines of the answer to LIST with no filter
UnfilteredListLines ==
    LET lines == LinesOf(handle_command(STR_LIST, items, iterOrder, <<>>))
    IN  {lines[i] : i \in DOMAIN lines}

\* C11: SEARCH with a term answers one line for each item whose name,
\* description or category contains the term whatever the case of either
\* (one field is enough) and for no other item; these lines are among the
\* lines of the unfiltered LIST; when no item matches the answer is
\* "No items found matching your search\n".
C11_SearchBySubstring ==
    (cmdParsed # NotParsed /\ ExpectedKind(cmdTokens) = "Search") =>
        LET matched ==
                {k \in DOMAIN items :
                    \/ ContainsIgnoringCase(items[k].name, cmdTokens[2])
                    \/ ContainsIgnoringCase(items[k].description, cmdTokens[2])
                    \/ ContainsIgnoringCase(items[k].category, cmdTokens[2])}
            lines == LinesOf(cmdOut)
        IN  IF matched = {} THEN cmdOut = STR_NO_MATCH
            ELSE /\ Len(lines) = Cardinality(matched)
                 /\ {lines[i] : i \in DOMAIN lines} =
                        {ItemLine(items[k]) : k \in matched}
                 /\ {lines[i] : i \in DOMAIN lines} \subseteq UnfilteredListLines

\* SEARCH GAMING answers the one item whose category, and no other field,
\* contains "gaming"
C11_Witness ==
    /\ cmdParsed # NotParsed
    /\ cmdTokens = <<STR_SEARCH, TOK_GAMING_upper>>
    /\ cmdOut = ItemLine(Item1) \o <<"\n">>
    /\ ~ContainsIgnoringCase(Item1.name, TOK_GAMING_upper)
    /\ ~ContainsIgnoringCase(Item1.description, TOK_GAMING_upper)

\* the lines of the detail record of an item
RecordLines(item) ==
    << <<"I", "D", ":", " ">> \o item.id,
       <<"N", "a", "m", "e", ":", " ">> \o item.name,
       <<"C", "a", "t", "e", "g", "o", "r", "y", ":", " ">> \o item.category,
       <<"P", "r", "i", "c", "e", ":", " ">> \o item.price,
       <<"S", "e", "l", "l", "e", "r", ":", " ">> \o item.seller,
       <<>>,
       item.description >>

\* the text made of the given lines, each ended by a newline
RECURSIVE TextOfLines(_)
TextOfLines(lines) ==
    IF lines = <<>> THEN <<>>
    ELSE Head(lines) \o <<"\n">> \o TextOfLines(Tail(lines))

\* C12: GET with an id that is a key of the Catalog answers the record of
\* that item, holding its id, name, category, price, seller and description
\* as they are stored; GET with any other id answers "Item with ID <id> not
\* found\n" with the id as it was asked; the answer is never empty.
C12_GetByExactKey ==
    (cmdParsed # NotParsed /\ ExpectedKind(cmdTokens) = "Get") =>
        LET id == cmdTokens[2]
        IN  /\ cmdOut # <<>>
            /\ IF \E k \in DOMAIN items : k = id
               THEN /\ cmdOut = TextOfLines(RecordLines(items[id]))
                    /\ items[id].id = id
                    /\ \A v \in {items[id].id, items[id].name,
                                  items[id].category, items[id].price,
                                  items[id].seller, items[id].description} :
                            contains(cmdOut, v)
               ELSE cmdOut = STR_NOT_FOUND_PRE \o id \o STR_NOT_FOUND_POST

\* "get 2" answers the record of the Yamaha DX7
C12_Witness ==
    /\ cmdParsed # NotParsed
    /\ cmdTokens = <<TOK_get_lower, ITEM2_ID>>
    /\ cmdOut = TextOfLines(RecordLines(Item2))

\* "- <category>"
CategoryLine(category) == <<"-", " ">> \o category

\* the answer is the header line followed by one line for each category in
\* cats and by nothing else
IsCategoryListing(text, cats) ==
    LET lines == LinesOf(text)
    IN  /\ Len(lines) = 1 + Cardinality(cats)
        /\ lines[1] \o <<"\n">> = STR_CAT_HEADER
        /\ \A cat \in cats :
                Cardinality({i \in 2..Len(lines) : lines[i] = CategoryLine(cat)}) = 1
        /\ \A i \in 2..Len(lines) : \E cat \in cats : lines[i] = CategoryLine(cat)

\* a Catalog in which a third item shares the category of item 1
CatalogWithSharedCategory ==
    (TOK_3 :> [Item1 EXCEPT !.id = TOK_3]) @@ BazaarServer_new

\* C13: CATEGORIES answers the header line followed by one "- <category>"
\* line for each category some item of the Catalog has, each exactly once
\* and in whatever order the set iterates, and by no other line; a category
\* that several items share is still listed once.
C13_CategoriesDistinct ==
    /\ (cmdParsed # NotParsed /\ ExpectedKind(cmdTokens) = "Categories") =>
            IsCategoryListing(cmdOut, {items[k].category : k \in DOMAIN items})
    /\ cmdParsed # NotParsed =>
            \A co \in hash_orders(categories_of(CatalogWithSharedCategory)) :
                IsCategoryListing(categories_arm(co),
                                  {ITEM1_CATEGORY, ITEM2_CATEGORY})

\* "CATEGORIES" answered with the two categories, the one of item 2 first
C13_Witness ==
    /\ cmdParsed # NotParsed
    /\ cmdTokens = <<STR_CATEGORIES>>
    /\ cmdOut = STR_CAT_HEADER \o CategoryLine(ITEM2_CATEGORY) \o <<"\n">>
                    \o CategoryLine(ITEM1_CATEGORY) \o <<"\n">>

----------------------------------------------------------------------------
(* Properties of the server with its clients, checked under SpecSession.   *)

\* the command word a request begins with, "" when it begins with none
KindOfRequest(text) == ExpectedKind(split_whitespace(text))

\* C14: no step changes the Catalog, whatever command a handler runs and
\* whatever the other handlers do, so the Catalog is always the set built
\* at startup: item 1 and item 2 under their own ids, which differ.
C14_CatalogNeverMutated ==
    /\ [](/\ DOMAIN items = {ITEM1_ID, ITEM2_ID}
          /\ items[ITEM1_ID] = Item1
          /\ items[ITEM2_ID] = Item2
          /\ \A j, k \in DOMAIN items :
                /\ items[k].id = k
                /\ items[j].id = items[k].id => j = k)
    /\ [][items' = items]_vars

\* one handler is writing the answer to a GET while the other holds the
\* read guard for a CATEGORIES
C14_Witness ==
    \E c, d \in Conns :
        /\ pc[c] = "Writing"
        /\ KindOfRequest(request[d]) = "Categories"
        /\ KindOfRequest(request[c]) = "Get"
        /\ d \in readers
        /\ items = BazaarServer_new

\* two texts are made of the same lines, each as often in one as in the
\* other, in whatever order
SameLinesInAnyOrder(a, b) ==
    LET la == LinesOf(a)
        lb == LinesOf(b)
    IN  /\ Len(la) = Len(lb)
        /\ \A i \in DOMAIN la :
                Cardinality({j \in DOMAIN la : la[j] = la[i]}) =
                    Cardinality({j \in DOMAIN lb : lb[j] = la[i]})

\* C15, as stated: the response is a function of the bytes of the request
\* and of the Catalog alone, so two handlers that are answering the same
\* request are writing the same response.
C15_SameRequestSameResponse ==
    \A c, d \in Conns :
        (pc[c] = "Writing" /\ pc[d] = "Writing" /\ request[c] = request[d]) =>
            response[c] = response[d]

\* C15, amended: the request a handler answers is the decoding of the bytes
\* of the command its client sent last and of nothing else, whatever is left
\* in its buffer, and the response is what handle_command answers to that
\* request on the Catalog for some iteration order of the set of categories;
\* two handlers answering the same request write the same lines, in the same
\* order unless the request is CATEGORIES.
C15_ResponseOfRequestAndCatalog ==
    /\ \A c \in Conns :
            pc[c] \in {"Dispatching", "Writing"} =>
                /\ request[c] \in {from_utf8_lossy(l) : l \in CommandLines}
                /\ request[c] =
                        from_utf8_lossy(SubSeq(buffer[c], 1, Len(request[c])))
    /\ \A c \in Conns :
            pc[c] = "Writing" =>
                response[c] \in
                    {handle_command(request[c], BazaarServer_new, iterOrder,
                                    co) :
                        co \in hash_orders({ITEM1_CATEGORY, ITEM2_CATEGORY})}
    /\ \A c, d \in Conns :
            (pc[c] = "Writing" /\ pc[d] = "Writing" /\ request[c] = request[d]) =>
                IF KindOfRequest(request[c]) = "Categories"
                THEN SameLinesInAnyOrder(response[c], response[d])
                ELSE response[c] = response[d]

\* a handler is answering LIST, read over the longer CATEGORIES it answered
\* before, whose last bytes are still in the buffer, with the full listing
C15_Witness ==
    \E c \in Conns :
        /\ pc[c] = "Writing"
        /\ nWrites[c] = 1
        /\ request[c] = L_LIST
        /\ Len(buffer[c]) = Len(L_CATEGORIES)
        /\ SubSeq(buffer[c], 1, Len(L_LIST)) = L_LIST
        /\ Len(LinesOf(response[c])) = 2

\* Catalogs other than the one built at startup: none, and one more item
OtherCatalogs == {<<>>, CatalogWithSharedCategory}

\* C17: a request whose first token is HEAD is answered "OK\n";
\* its handler holds no read guard of the Catalog lock at any moment between
\* the read of the request and the write of the answer, and the step that
\* answers it leaves the lock as it is; the answer is the same on a Catalog
\* with no item and on one with more items.
C17_HeadWithoutLock ==
    /\ [](\A c \in Conns :
            (pc[c] \in {"Dispatching", "Writing"}
                    /\ KindOfRequest(request[c]) = "Head") =>
                /\ c \notin readers
                /\ pc[c] = "Writing" => response[c] = STR_OK)
    /\ [](\A its \in OtherCatalogs :
            \A order \in hash_orders(DOMAIN its) :
                handle_command(L_HEAD, its, order, <<>>) = STR_OK)
    /\ [][\A c \in Conns :
            (pc[c] = "Dispatching" /\ pc'[c] = "Writing"
                    /\ KindOfRequest(request[c]) = "Head") =>
                readers' = readers]_vars

\* HEAD is being answered on one connection while the handler of the other
\* holds a read guard
C17_Witness ==
    \E c, d \in Conns :
        /\ pc[c] = "Writing"
        /\ request[c] = L_HEAD
        /\ response[c] = STR_OK
        /\ d \in readers

\* the Catalog lock is only ever held by handlers that are inside
\* handle_command, as readers: a handler at its socket read or write, or
\* closed, holds no guard; a handler that wants the guard can take it
\* whoever holds one already; a step changes the lock only by one handler
\* taking or dropping its own guard, and the guard is dropped on the step
\* to the write
ReadLockDiscipline ==
    /\ [](\A c \in Conns :
            /\ c \in readers =>
                    (pc[c] = "Dispatching"
                        /\ takes_read_lock(arm[c]))
            /\ (pc[c] = "Dispatching" /\ c \notin readers /\ ~terminated
                    /\ takes_read_lock(arm[c])) =>
                    ENABLED LockRead(c))
    /\ [][readers' # readers =>
            \E c \in Conns :
                /\ pc[c] = "Dispatching"
                /\ \/ c \notin readers /\ readers' = readers \cup {c}
                   \/ (c \in readers /\ readers' = readers \ {c}
                            /\ pc'[c] = "Writing")]_vars

----------------------------------------------------------------------------
(* Further properties of the stress harness, checked under SpecStress.     *)

\* the longest elapsed time of a request
MaxElapsed == CHOOSE e \in ElapsedVals : \A f \in ElapsedVals : f <= e

\* C16: total_time_ns is 0 as long as no request has succeeded; it changes
\* only in the step of a worker whose request was counted as succeeded and
\* that adds the elapsed time of that request; a step that counts a failure
\* leaves it as it is; so it is at most the number of succeeded requests
\* times the longest elapsed time.
C16_LatencyOnlyForSuccesses ==
    /\ [](/\ requests_succeeded = 0 => total_time_ns = 0
          /\ Cardinality({w \in Workers : wpc[w] = "add_time"})
                <= requests_succeeded
          /\ total_time_ns <= MaxElapsed * requests_succeeded)
    /\ [][/\ total_time_ns' # total_time_ns =>
                /\ requests_succeeded > 0
                /\ requests_succeeded' = requests_succeeded
                /\ requests_failed' = requests_failed
                /\ \E w \in Workers :
                        /\ wpc[w] = "add_time"
                        /\ wpc'[w] = "loop"
                        /\ total_time_ns' = total_time_ns + welapsed[w]
          /\ requests_failed' # requests_failed =>
                total_time_ns' = total_time_ns]_vars

\* a completed run in which one request succeeded and two others failed
C16_Witness ==
    /\ stressPc = "done"
    /\ requests_succeeded = 1
    /\ requests_failed = 2
    /\ total_time_ns = MaxElapsed

\* the workers whose request is outstanding: requests_sent was incremented
\* and neither requests_succeeded nor requests_failed yet
Outstanding == {w \in Workers : wpc[w] \in {"connect", "write", "read"}}

\* C21: in every state of the run, requests_succeeded + requests_failed <=
\* requests_sent <= requests_succeeded + requests_failed + concurrency; the
\* difference is the number of workers whose request is outstanding, each
\* spawned worker having at most one.
C21_InFlightBound ==
    /\ requests_succeeded + requests_failed <= requests_sent
    /\ requests_sent <= requests_succeeded + requests_failed + concurrency
    /\ requests_sent
            = requests_succeeded + requests_failed + Cardinality(Outstanding)
    /\ Outstanding \subseteq 1..spawned
    /\ spawned <= concurrency

\* every worker of a run of several has a request outstanding, after
\* requests of both outcomes: the upper bound is met
C21_Witness ==
    /\ concurrency > 1
    /\ Outstanding = 1..concurrency
    /\ requests_succeeded > 0
    /\ requests_failed > 0
    /\ requests_sent = requests_succeeded + requests_failed + concurrency

====
